---------------------------- MODULE Spec2Model ----------------------------
(***************************************************************************)
(* Ripple renderer of world-map-data: initRipple (bounds, seed selection,  *)
(* delay field, projection), the fragment stage's intensity curve and the  *)
(* frame driver, in the three variants the repository ships:               *)
(*   "resilient"  - src/wm-ripple-gl.js      (OGL, UMD/ESM loader)         *)
(*   "standalone" - src/unnamed/part_000     (raw WebGL2, dpr and fps cap) *)
(*   "skypack"    - src/unnamed/part_001     (OGL imported from a CDN)     *)
(*                                                                         *)
(* Numbers.  Seconds are counted in units of 1/UnitsPerSec s, so that the  *)
(* code's -0.0001 nudge is one unit.  Math.random() is a draw n/RandRes,   *)
(* n in 0..RandRes-1.  Math.hypot is irrational in general: the travel     *)
(* time is the real value rounded down on the unit grid.  Projection and   *)
(* shader values are exact rationals <<num, den>>.                         *)
(***************************************************************************)
EXTENDS Integers, Sequences, FiniteSets, TLC

\* ------------------------------------------------------------------------
\* Bounds of the model
\* ------------------------------------------------------------------------
\* Math.random() returns n/RandRes for n in 0..RandRes-1
RandRes == 2
\* point coordinates of the enumerated datasets are in 0..MaxCoord
MaxCoord == 1
\* animation timestamps (ms) are in 1..MaxTime
MaxTime == 4
\* the fragment stage is probed at global times 0..MaxProbe (tenths of a second)
MaxProbe == 12

\* the unit quad is probed every 1/(2*UVRes)
UVRes == 10

\* ------------------------------------------------------------------------
\* Program constants
\* ------------------------------------------------------------------------
\* 1 s = 10000 units, the resolution of the nudge "phaseSec = -0.0001"
UnitsPerSec == 10000
\* "if (phaseSec === 0) phaseSec = -0.0001", in units
NudgeUnits == 1
\* targetDotPx default
TargetDotPx == 4
\* dprCap default (standalone), as a whole number
DprCap == 2

\* ------------------------------------------------------------------------
\* Integer helpers
\* ------------------------------------------------------------------------
Max2(a, b) == IF a >= b THEN a ELSE b

Min2(a, b) == IF a <= b THEN a ELSE b

Abs(a) == IF a < 0 THEN -a ELSE a

SetMax(S) == CHOOSE m \in S : \A o \in S : o <= m

SetMin(S) == CHOOSE m \in S : \A o \in S : m <= o

RECURSIVE GCD(_, _)
GCD(a, b) == IF b = 0 THEN a ELSE GCD(b, a % b)

\* floor of the square root, by bisection: lo*lo <= x < hi*hi
RECURSIVE ISqrtB(_, _, _)
ISqrtB(x, lo, hi) ==
  IF hi - lo <= 1 THEN lo
  ELSE LET mid == (lo + hi) \div 2
       IN IF mid * mid <= x THEN ISqrtB(x, mid, hi) ELSE ISqrtB(x, lo, mid)

ISqrt(x) == ISqrtB(x, 0, x + 1)

\* JavaScript's % : the remainder has the sign of the dividend
JsRem(a, b) == IF a >= 0 THEN a % b ELSE -((-a) % b)

\* Math.round of the fraction n/d (d > 0): nearest integer, halves go up
MathRound(n, d) == (2 * n + d) \div (2 * d)

\* ------------------------------------------------------------------------
\* Exact rationals <<num, den>>, den > 0, in lowest terms
\* ------------------------------------------------------------------------
Rat(n, d) ==
  LET s == IF d < 0 THEN -1 ELSE 1
      g == GCD(Abs(n), Abs(d))
  IN <<(s * n) \div g, (s * d) \div g>>

RInt(n) == <<n, 1>>

RAdd(a, b) == Rat(a[1] * b[2] + b[1] * a[2], a[2] * b[2])

RSub(a, b) == Rat(a[1] * b[2] - b[1] * a[2], a[2] * b[2])

RMul(a, b) == Rat(a[1] * b[1], a[2] * b[2])

RDiv(a, b) == Rat(a[1] * b[2], a[2] * b[1])

RLt(a, b) == a[1] * b[2] < b[1] * a[2]

RLe(a, b) == a[1] * b[2] <= b[1] * a[2]

RMax(a, b) == IF RLt(a, b) THEN b ELSE a

RMin(a, b) == IF RLt(b, a) THEN b ELSE a

\* floor of a rational
RFloor(a) == a[1] \div a[2]

\* ------------------------------------------------------------------------
\* Bounds calculator
\* ------------------------------------------------------------------------
\* a JSON record that carries numeric x and y
HasXY(p) == "x" \in DOMAIN p /\ "y" \in DOMAIN p

\* "p.r || 0": a missing (or zero) r counts as 0
ROr0(p) == IF "r" \in DOMAIN p THEN p.r ELSE 0

\* Pad that ignores the radii
PadFixed(maxR) == 1

\* "const pad = Math.max(maxR, 1)"
Pad(maxR) == Max2(maxR, 1)

\* what the loop leaves in the box when a record has no numeric x, y:
\* minX stays Infinity, maxX stays -Infinity, so the box is not a number
NaNBox ==
  [x |-> "Infinity", y |-> "Infinity", width |-> "-Infinity", height |-> "-Infinity",
   finite |-> FALSE]

\* a box of numbers
IsFinite(box) == "finite" \notin DOMAIN box

\* the min/max scan over the points and the padded box built from it
ViewBox(P) ==
  IF \A i \in 1..Len(P) : HasXY(P[i])
  THEN LET minX == SetMin({P[i].x : i \in 1..Len(P)})
           minY == SetMin({P[i].y : i \in 1..Len(P)})
           maxX == SetMax({P[i].x : i \in 1..Len(P)})
           maxY == SetMax({P[i].y : i \in 1..Len(P)})
           maxR == SetMax({0} \cup {ROr0(P[i]) : i \in 1..Len(P)})
           pad  == Pad(maxR)
       IN [x |-> minX - pad, y |-> minY - pad,
           width |-> (maxX - minX) + pad * 2,
           height |-> (maxY - minY) + pad * 2]
  ELSE NaNBox

\* ------------------------------------------------------------------------
\* Seed selector
\* ------------------------------------------------------------------------
\* Array.from(pts.keys()): the indices 0..n-1 (position k holds index k-1)
Indices(n) == [k \in 1..n |-> k - 1]

\* Swap that writes indices[i] only: the element at j is duplicated
SwapLossy(ind, i, j) == [ind EXCEPT ![i + 1] = ind[j + 1]]

\* "[indices[i], indices[j]] = [indices[j], indices[i]]", i and j as in the code
Swap(ind, i, j) ==
  [k \in 1..Len(ind) |-> IF k = i + 1 THEN ind[j + 1]
                         ELSE IF k = j + 1 THEN ind[i + 1] ELSE ind[k]]

\* the draws "(Math.random() * (i + 1)) | 0" of one shuffle: js[i] in 0..i
ShuffleDraws(n) == {js \in [1..(n - 1) -> 0..(n - 1)] : \A i \in 1..(n - 1) : js[i] <= i}

\* "for (let i = indices.length - 1; i > 0; i--)" with the draws js
RECURSIVE Shuffle(_, _, _)
Shuffle(ind, i, js) ==
  IF i <= 0 THEN ind ELSE Shuffle(Swap(ind, i, js[i]), i - 1, js)

\* "Math.max(1, Math.min(maxSeeds, Math.round(pts.length * seedFraction)))"
SeedCount(n, cfg) ==
  Max2(1, Min2(cfg.maxSeeds, MathRound(n * cfg.seedFraction[1], cfg.seedFraction[2])))

\* indices.slice(0, k)
Slice(ind, k) == SubSeq(ind, 1, Min2(k, Len(ind)))

\* insert v into an ascending sequence
RECURSIVE Insert(_, _)
Insert(sorted, v) ==
  IF sorted = <<>> THEN <<v>>
  ELSE IF v < Head(sorted) THEN <<v>> \o sorted
       ELSE <<Head(sorted)>> \o Insert(Tail(sorted), v)

\* ".sort((a, b) => a - b)"
RECURSIVE SortAsc(_)
SortAsc(s) == IF s = <<>> THEN <<>> ELSE Insert(SortAsc(Tail(s)), Head(s))

\* seedIdxs: the first seedCount shuffled indices, re-sorted ascending
SeedIdxs(n, js, cfg) == SortAsc(Slice(Shuffle(Indices(n), n - 1, js), SeedCount(n, cfg)))

\* cycleSec in units
CycleUnits(cfg) == cfg.cycleSec * UnitsPerSec

\* "Math.random() * cycleSec" for the draw n/RandRes
SeedPhaseOf(n, cfg) == (n * CycleUnits(cfg)) \div RandRes

\* ------------------------------------------------------------------------
\* Delay field builder
\* ------------------------------------------------------------------------
\* Math.hypot(p.x - S.x, p.y - S.y), squared
Dist2(p, S) == (p.x - S.x) * (p.x - S.x) + (p.y - S.y) * (p.y - S.y)

\* a comparison that lets a later seed at the same distance win
CloserOrEqual(d, best) == best < 0 \/ d <= best

\* "if (d < bestDist)": bestDist < 0 stands for the initial Infinity
Closer(d, best) == best < 0 \/ d < best

\* the scan "for (let s = 0; s < seeds.length; s++)" from seed s on
RECURSIVE NearestScan(_, _, _, _, _)
NearestScan(p, seeds, s, best, bestIdx) ==
  IF s >= Len(seeds) THEN [best |-> best, bestIdx |-> bestIdx]
  ELSE LET d == Dist2(p, seeds[s + 1])
       IN IF Closer(d, best) THEN NearestScan(p, seeds, s + 1, d, s)
          ELSE NearestScan(p, seeds, s + 1, best, bestIdx)

\* "let bestDist = Infinity, bestIdx = 0" and the scan
Nearest(p, seeds) == NearestScan(p, seeds, 0, -1, 0)

\* the square root of UnitsPerSec
SqrtUnits == ISqrt(UnitsPerSec)

\* travelSec = bestDist / waveSpeed with waveSpeed = diag / (cycleSec * 0.60):
\* bestDist * cycleSec * 0.6 / diag, rounded down to a unit (bestDist < diag)
TravelUnits(d2, box, cfg) ==
  LET diag2 == box.width * box.width + box.height * box.height
      ratio == ISqrt((d2 * UnitsPerSec) \div diag2)
  IN (ratio * 6 * CycleUnits(cfg)) \div (10 * SqrtUnits)

\* "(Math.random() - 0.5) * rngJitter" for the draw n/RandRes
JitterOf(n, cfg) == ((2 * n - RandRes) * cfg.rngJitter) \div (2 * RandRes)

\* "phaseSec = -(phaseSec % cycleSec); if (phaseSec === 0) phaseSec = -0.0001"
DelayOf(rawPhase, cfg) ==
  LET phaseSec == -JsRem(rawPhase, CycleUnits(cfg))
  IN IF phaseSec = 0 THEN -NudgeUnits ELSE phaseSec

\* a phase that leaves the seed's own start phase out
RawPhaseJitterOnly(p, seeds, phases, jit, box, cfg) ==
  LET near == Nearest(p, seeds)
  IN TravelUnits(near.best, box, cfg) + JitterOf(jit, cfg)

\* "seedPhase[bestIdx] + travelSec + jitter" of point p
RawPhase(p, seeds, phases, jit, box, cfg) ==
  LET near == Nearest(p, seeds)
  IN phases[near.bestIdx + 1] + TravelUnits(near.best, box, cfg) + JitterOf(jit, cfg)

\* the instance delay array; a record without x, y gives NaN
\* (Math.hypot(NaN, NaN) is NaN, so is the phase, and NaN === 0 is false)
InstDelay(P, sIdx, phases, jits, box, cfg) ==
  LET seeds == [s \in 1..Len(sIdx) |-> P[sIdx[s] + 1]]
  IN [i \in 1..Len(P) |->
        IF HasXY(P[i]) /\ (\A s \in 1..Len(seeds) : HasXY(seeds[s]))
        THEN DelayOf(RawPhase(P[i], seeds, phases, jits[i], box, cfg), cfg)
        ELSE "NaN"]

\* the locals of the delay loop for each point: bestIdx, bestDist (squared),
\* travelSec and jitter; a record without x, y leaves bestDist at Infinity
\* and bestIdx at 0 (NaN < Infinity is false), and travelSec is NaN
Scan(P, sIdx, jits, box, cfg) ==
  LET seeds == [s \in 1..Len(sIdx) |-> P[sIdx[s] + 1]]
  IN [i \in 1..Len(P) |->
        IF HasXY(P[i]) /\ (\A s \in 1..Len(seeds) : HasXY(seeds[s]))
        THEN LET near == Nearest(P[i], seeds)
             IN [bestIdx |-> near.bestIdx, bestDist2 |-> near.best,
                 travelSec |-> TravelUnits(near.best, box, cfg),
                 jitter |-> JitterOf(jits[i], cfg)]
        ELSE [bestIdx |-> 0, bestDist2 |-> "Infinity", travelSec |-> "NaN",
              jitter |-> JitterOf(jits[i], cfg)]]

\* the instance centers array (undefined stored in a Float32Array is NaN)
InstCenters(P) ==
  [i \in 1..Len(P) |-> IF HasXY(P[i]) THEN <<P[i].x, P[i].y>> ELSE <<"NaN", "NaN">>]

\* ------------------------------------------------------------------------
\* Projection
\* ------------------------------------------------------------------------
\* Transforms without the Y flip
TransformsNoFlip(box) ==
  IF ~IsFinite(box)
  THEN [sx |-> "-0", sy |-> "0", ox |-> "NaN", oy |-> "NaN"]
  ELSE LET sx == RDiv(RInt(2), RInt(box.width))
           sy == RDiv(RInt(2), RInt(box.height))
       IN [sx |-> sx, sy |-> sy,
           ox |-> RSub(RInt(-1), RMul(RInt(box.x), sx)),
           oy |-> RSub(RInt(-1), RMul(RInt(box.y), sy))]

\* updateTransforms: sx, sy, ox, oy of a numeric box; of the non-numeric box
\* 2/-Infinity is -0 and Infinity * -0 is NaN
Transforms(box) ==
  IF ~IsFinite(box)
  THEN [sx |-> "-0", sy |-> "0", ox |-> "NaN", oy |-> "NaN"]
  ELSE LET sx == RDiv(RInt(2), RInt(box.width))
           sy == RDiv(RInt(-2), RInt(box.height))
       IN [sx |-> sx, sy |-> sy,
           ox |-> RSub(RInt(-1), RMul(RInt(box.x), sx)),
           oy |-> RSub(RInt(1), RMul(RInt(box.y), sy))]

\* the vertex stage's "posData * uScale + uOffset"
ToNDC(x, y, t) ==
  <<RAdd(RMul(RInt(x), t.sx), t.ox), RAdd(RMul(RInt(y), t.sy), t.oy)>>

\* the floor 1e-6 of pxPerDataX
PxFloor == Rat(1, 1000000)

\* resize(): dotSizeData from the measured width, per variant.
\*   resilient, standalone: pxPerDataX = (rect.width || 1) / vbW;
\*                          dotSizeData = targetDotPx / Math.max(pxPerDataX, 1e-6)
\*   skypack:               pxPerDataX = rect.width / vbW || 1e-6;
\*                          dotSizeData = targetDotPx / pxPerDataX
\* With vbW = -Infinity the quotient is -0: the floor applies in every variant.
DotSize(v, rectWidth, box) ==
  IF ~IsFinite(box) THEN RDiv(RInt(TargetDotPx), PxFloor)
  ELSE IF v = "skypack"
       THEN LET q == Rat(rectWidth, box.width)
            IN RDiv(RInt(TargetDotPx), IF q[1] = 0 THEN PxFloor ELSE q)
       ELSE LET q == Rat(IF rectWidth = 0 THEN 1 ELSE rectWidth, box.width)
            IN RDiv(RInt(TargetDotPx), RMax(q, PxFloor))

\* standalone: "Math.min(dprCap || dprRaw, dprRaw)" with dprRaw = Math.max(1, dpr)
Dpr(dprRaw) == Min2(IF DprCap = 0 THEN Max2(1, dprRaw) ELSE DprCap, Max2(1, dprRaw))

\* the drawing-buffer size resize() sets: standalone rounds rect * dpr and
\* floors it at 1; the OGL variants hand the rect to renderer.setSize
CanvasSize(v, rect, dprRaw) ==
  IF v = "standalone"
  THEN <<Max2(1, rect.width * Dpr(dprRaw)), Max2(1, rect.height * Dpr(dprRaw))>>
  ELSE <<rect.width, rect.height>>

\* ------------------------------------------------------------------------
\* Fragment stage
\* ------------------------------------------------------------------------
\* GLSL clamp(x, lo, hi)
RClamp(x, lo, hi) == RMin(RMax(x, lo), hi)

\* GLSL smoothstep(e0, e1, x): t = clamp((x - e0)/(e1 - e0), 0, 1); t*t*(3 - 2t)
Smoothstep(e0, e1, x) ==
  LET t == RClamp(RDiv(RSub(x, e0), RSub(e1, e0)), RInt(0), RInt(1))
  IN RMul(RMul(t, t), RSub(RInt(3), RMul(RInt(2), t)))

\* rippleWindow whose fade-out divides by the whole cycle instead of its 90%
RippleWindowLongFade(tNorm) ==
  IF RLt(tNorm, Rat(3, 100)) THEN Smoothstep(RInt(0), Rat(3, 100), tNorm)
  ELSE IF RLt(tNorm, Rat(10, 100)) THEN RInt(1)
       ELSE RSub(RInt(1), RSub(tNorm, Rat(10, 100)))

\* rippleWindow: ~3% fade-in, 7% hold, 90% fade-out
RippleWindow(tNorm) ==
  IF RLt(tNorm, Rat(3, 100)) THEN Smoothstep(RInt(0), Rat(3, 100), tNorm)
  ELSE IF RLt(tNorm, Rat(10, 100)) THEN RInt(1)
       ELSE RSub(RInt(1), RDiv(RSub(tNorm, Rat(10, 100)), Rat(90, 100)))

\* GLSL mod(x, y) = x - y * floor(x / y)
GlslMod(x, y) == RSub(x, RMul(y, RInt(RFloor(RDiv(x, y)))))

\* main(): t = uTime + vDelay; tCycle = mod(t, uCycle); tNorm = tCycle / uCycle
TNorm(time, delay, cycle) == RDiv(GlslMod(RAdd(time, delay), cycle), cycle)

\* GLSL abs(x)
RAbs(x) == IF RLt(x, RInt(0)) THEN RSub(RInt(0), x) ELSE x

\* GLSL step(edge, x): 0.0 if x < edge, else 1.0
Step(edge, x) == IF RLt(x, edge) THEN 0 ELSE 1

\* a that forgets abs() on the x component
MaskANoAbs(uv, corner) ==
  <<RAdd(RSub(uv[1], Rat(1, 2)), corner),
    RAdd(RSub(RAbs(uv[2]), Rat(1, 2)), corner)>>

\* "vec2 a = abs(uv) - 0.5 + vec2(corner)"
MaskA(uv, corner) ==
  <<RAdd(RSub(RAbs(uv[1]), Rat(1, 2)), corner),
    RAdd(RSub(RAbs(uv[2]), Rat(1, 2)), corner)>>

\* "float outside = max(a.x, a.y)"
MaskOutside(a) == RMax(a[1], a[2])

\* "vec2 q = max(a, 0.0)"
MaskQ(a) == <<RMax(a[1], RInt(0)), RMax(a[2], RInt(0))>>

\* "float r = length(q) - corner; step(r, 0.0)": 1 iff length(q) <= corner.
\* length(q) >= 0, so the test is corner >= 0 and |q|^2 <= corner^2
StepR(q, corner) ==
  IF /\ RLe(RInt(0), corner)
     /\ RLe(RAdd(RMul(q[1], q[1]), RMul(q[2], q[2])), RMul(corner, corner))
  THEN 1 ELSE 0

\* a mask that keeps only the distance test, i.e. a box with rounded corners
RoundedRectMaskRounded(uv, corner) ==
  StepR(MaskQ(MaskA(uv, corner)), corner)

\* roundedRectMask(uv, corner): m = step(outside, 0.0); m *= step(r, 0.0)
RoundedRectMask(uv, corner) ==
  LET a == MaskA(uv, corner)
  IN Step(MaskOutside(a), RInt(0)) * StepR(MaskQ(a), corner)

\* main(): "clamp(uCorner, 0.0, 0.49)"
ClampCorner(uCorner) == RClamp(uCorner, RInt(0), Rat(49, 100))

\* ------------------------------------------------------------------------
\* Environments: options, host page, data source
\* ------------------------------------------------------------------------
Variants == {"resilient", "standalone", "skypack"}

\* the draws n of Math.random() = n/RandRes
Rand == 0..(RandRes - 1)

\* the option defaults: seedFraction 0.20, maxSeeds 64, cycleSec 10,
\* rngJitter 0.5 s, fpsCap 0
DefaultCfg ==
  [seedFraction |-> <<1, 5>>, maxSeeds |-> 64, cycleSec |-> 10,
   rngJitter |-> UnitsPerSec \div 2, fpsCap |-> 0]

\* option sets the data pipeline is run with
DataCfgs ==
  { DefaultCfg,
    [DefaultCfg EXCEPT !.seedFraction = <<1, 1>>],
    [DefaultCfg EXCEPT !.seedFraction = <<1, 2>>, !.maxSeeds = 1, !.cycleSec = 1,
                       !.rngJitter = 3 * UnitsPerSec],
    [DefaultCfg EXCEPT !.seedFraction = <<1, 2>>, !.cycleSec = 1, !.rngJitter = 0] }

\* option sets the frame driver is run with (fpsCap is read by standalone only)
DriverCfgs == { DefaultCfg, [DefaultCfg EXCEPT !.fpsCap = 50] }

\* point records {x, y} and {x, y, r}
Coords == 0..MaxCoord

PointRecords ==
  [x : Coords, y : Coords] \cup [x : Coords, y : Coords, r : {2}]

\* the single point of scenario B
ScenarioB == << [x |-> 5, y |-> 5, r |-> 2] >>

\* three collinear points: the middle one is equidistant from the outer two
Collinear == << [x |-> 0, y |-> 0], [x |-> 1, y |-> 0, r |-> 0], [x |-> 2, y |-> 0] >>

\* the four points of scenario A: a unit square
UnitSquare ==
  << [x |-> 0, y |-> 0], [x |-> 1, y |-> 0], [x |-> 0, y |-> 1], [x |-> 1, y |-> 1] >>

\* scenario A runs with seedFraction 1.0 and the other defaults
ScenarioACfg == [DefaultCfg EXCEPT !.seedFraction = <<1, 1>>]

\* datasets the data pipeline is run on
DataSets ==
  {ScenarioB, Collinear} \cup {<<p>> : p \in PointRecords}
    \cup {<<p, q>> : p \in PointRecords, q \in PointRecords}

\* JSON null and the empty object {} as array items
JsonNull == [null |-> TRUE]

EmptyObject == [f \in {} |-> 0]

IsNull(p) == "null" \in DOMAIN p

\* what the data source yields once fetched and parsed
ArrayOf(items) == [isArray |-> TRUE, items |-> items]

NotAnArray == [isArray |-> FALSE, items |-> <<>>]

\* measured sizes of the canvas (getBoundingClientRect)
Rects ==
  { [width |-> 0, height |-> 0], [width |-> 200, height |-> 100],
    [width |-> 400, height |-> 200] }

Rect0 == [width |-> 200, height |-> 100]

\* window.devicePixelRatio values
DprValues == {1, 3}

\* one fault per environment
Faults ==
  { "none", "no_canvas", "no_gl", "no_dataurl", "network_error", "http_error",
    "parse_error", "not_array", "empty_array", "null_record", "bad_record",
    "program_throws", "program_warns" }

\* the environment with fault f; payload P is what a healthy source yields
MkEnv(f, P, cfg, rm, io) ==
  [ canvas |-> f # "no_canvas",
    gl |-> f # "no_gl",
    dataUrl |-> f # "no_dataurl",
    fetch |-> IF f \in {"network_error", "http_error", "parse_error"} THEN f ELSE "ok",
    payload |-> CASE f = "not_array" -> NotAnArray
                  [] f = "empty_array" -> ArrayOf(<<>>)
                  [] f = "null_record" -> ArrayOf(<<JsonNull>>)
                  [] f = "bad_record" -> ArrayOf(<<EmptyObject>>)
                  [] OTHER -> ArrayOf(P),
    program |-> IF f \in {"program_throws", "program_warns"} THEN f ELSE "ok",
    reducedMotion |-> rm,
    hasIO |-> io,
    cfg |-> cfg ]

\* faults a variant can meet: skypack has no loader or context guard;
\* standalone's createProgram throws, it never only warns
FaultsOf(v) ==
  CASE v = "skypack" -> Faults \ {"no_gl"}
    [] v = "standalone" -> Faults \ {"program_warns"}
    [] OTHER -> Faults

\* ------------------------------------------------------------------------
\* State
\* ------------------------------------------------------------------------
VARIABLES
  variant,          \* which of the three files runs
  env,              \* options, host page and data source (fixed)
  pc,               \* "start", "fetching", "loop", "returned", "threw"; "gpu", "shaded" for the fragment probe
  pts,              \* the parsed point array
  vb,               \* vbX, vbY, vbW, vbH
  seedIdxs,         \* the selected indices, ascending
  seedPhase,        \* one start phase per seed (units)
  instCenters,      \* per-instance centers
  instDelay,        \* per-instance delays (units)
  scan,             \* per point, the delay loop's bestIdx, bestDist, travelSec, jitter
  rect,             \* the last measured canvas rect
  canvasSize,       \* drawing-buffer size <<w, h>>
  dotSizeData,      \* marker size in data units
  uBounds,          \* uniform (vbX, vbY, dotSizeData)
  uScale,           \* uniform (sx, sy)
  uOffset,          \* uniform (ox, oy)
  resizeListeners,  \* number of 'resize' listeners on window
  running,          \* the Running / Paused flag
  lastT,            \* timestamp of the last drawn frame (standalone)
  uTime,            \* uniform: global time in seconds
  rafPending,       \* frame callbacks registered with requestAnimationFrame
  draws,            \* the uTime of every draw issued so far
  now,              \* timestamp (ms) of the latest animation tick
  sig,              \* the latest intersection signal: "none", "visible", "hidden"
  frag              \* the latest fragment evaluated by the probe

dataVars == <<pts, vb, seedIdxs, seedPhase, instCenters, instDelay, scan>>

projVars == <<rect, canvasSize, dotSizeData, uBounds, uScale, uOffset>>

drvVars == <<running, lastT, uTime, rafPending, draws, now, sig>>

vars == <<variant, env, pc, dataVars, projVars, resizeListeners, drvVars, frag>>

NoFrag ==
  [time |-> RInt(0), delay |-> RInt(0), cycle |-> RInt(1),
   uv |-> <<RInt(0), RInt(0)>>, corner |-> RInt(0), mask |-> 0, discarded |-> TRUE,
   tNorm |-> RInt(0), w |-> RInt(0)]

\* everything initRipple has not touched yet
Blank ==
  /\ pts = <<>>
  /\ vb = [x |-> 0, y |-> 0, width |-> 0, height |-> 0]
  /\ seedIdxs = <<>>
  /\ seedPhase = <<>>
  /\ instCenters = <<>>
  /\ instDelay = <<>>
  /\ scan = <<>>
  /\ rect = [width |-> 0, height |-> 0]
  /\ canvasSize = <<300, 150>>
  /\ dotSizeData = RInt(1)
  /\ uBounds = <<>>
  /\ uScale = <<RInt(0), RInt(0)>>
  /\ uOffset = <<RInt(0), RInt(0)>>
  /\ resizeListeners = 0
  /\ running = FALSE
  /\ lastT = 0
  /\ uTime = RInt(0)
  /\ rafPending = 0
  /\ draws = <<>>
  /\ now = 0
  /\ sig = "none"
  /\ frag = NoFrag

\* the frame driver's runs: every variant, every fault, scenario B's point
Init ==
  /\ variant \in Variants
  /\ \E f \in FaultsOf(variant), cfg \in DriverCfgs, rm \in BOOLEAN, io \in BOOLEAN :
       /\ (cfg.fpsCap > 0 => variant = "standalone")
       /\ env = MkEnv(f, ScenarioB, cfg, rm, io)
  /\ pc = "start"
  /\ Blank

\* the data pipeline's runs: healthy environment, every dataset and option set
InitData ==
  /\ variant \in Variants
  /\ \E P \in DataSets, cfg \in DataCfgs : env = MkEnv("none", P, cfg, FALSE, TRUE)
  /\ pc = "start"
  /\ Blank

\* ------------------------------------------------------------------------
\* initRipple
\* ------------------------------------------------------------------------
\* initRipple moves on to its next await, or ends: "returned", or "threw"
\* (an exception that rejects its promise)
Goto(how) ==
  /\ pc' = how
  /\ UNCHANGED <<dataVars, projVars, resizeListeners, drvVars>>

\* initRipple up to "await fetch(dataUrl)": the canvas lookup, the loader
\* (resilient) or the WebGL2 context (standalone), the dataUrl check
Start ==
  /\ pc = "start"
  /\ IF ~env.canvas THEN Goto("returned")
     ELSE IF ~env.gl /\ variant # "skypack" THEN Goto("returned")
     ELSE IF ~env.dataUrl THEN Goto("returned")
     ELSE Goto("fetching")
  /\ UNCHANGED <<variant, env, frag>>

\* the rest of initRipple on a non-empty array P, with the random draws:
\* js for the shuffle, ph for the seed phases, jit for the per-point jitter
Build(P, js, ph, jit) ==
  LET cfg    == env.cfg
      box    == ViewBox(P)
      dot    == DotSize(variant, Rect0.width, box)
      sIdx   == SeedIdxs(Len(P), js, cfg)
      phases == [s \in 1..Len(sIdx) |-> SeedPhaseOf(ph[s], cfg)]
      tr     == Transforms(box)
      rm     == env.reducedMotion
  IN /\ pts' = P
     /\ vb' = box
     /\ seedIdxs' = sIdx
     /\ seedPhase' = phases
     /\ instCenters' = InstCenters(P)
     /\ instDelay' = InstDelay(P, sIdx, phases, jit, box, cfg)
     /\ scan' = Scan(P, sIdx, jit, box, cfg)
     /\ IF env.program # "ok" /\ variant = "standalone"
        THEN \* createProgram throws before resize is registered or called
             /\ pc' = "threw"
             /\ UNCHANGED <<projVars, resizeListeners, drvVars>>
        ELSE IF env.program = "program_throws"
        THEN \* new Program throws: the first resize listener and its call are done
             /\ pc' = "threw"
             /\ rect' = Rect0
             /\ canvasSize' = CanvasSize(variant, Rect0, 1)
             /\ dotSizeData' = dot
             /\ resizeListeners' = 1
             /\ UNCHANGED <<uBounds, uScale, uOffset, drvVars>>
        ELSE /\ pc' = "loop"
             /\ rect' = Rect0
             /\ canvasSize' = CanvasSize(variant, Rect0, 1)
             /\ dotSizeData' = dot
             /\ uBounds' = <<box.x, box.y, dot>>
             /\ uScale' = <<tr.sx, tr.sy>>
             /\ uOffset' = <<tr.ox, tr.oy>>
             /\ resizeListeners' = IF variant = "standalone" THEN 1 ELSE 2
             /\ running' = ~rm
             /\ uTime' = RInt(0)
             /\ draws' = IF rm /\ variant # "standalone" THEN <<RInt(0)>> ELSE <<>>
             /\ rafPending' = 1
             /\ UNCHANGED <<lastT, now, sig>>

\* initRipple from the fetch's outcome on
DataLoaded ==
  /\ pc = "fetching"
  /\ LET P == env.payload.items
     IN IF env.fetch \in {"network_error", "parse_error"}
        THEN Goto(IF variant = "skypack" THEN "threw" ELSE "returned")
        ELSE IF env.fetch = "http_error" THEN Goto("returned")
        ELSE IF ~env.payload.isArray \/ Len(P) = 0 THEN Goto("returned")
        ELSE IF \E i \in 1..Len(P) : IsNull(P[i]) THEN Goto("threw")
        ELSE \E js \in ShuffleDraws(Len(P)) :
               \E ph \in [1..SeedCount(Len(P), env.cfg) -> Rand], jit \in [1..Len(P) -> Rand] :
                 Build(P, js, ph, jit)
  /\ UNCHANGED <<variant, env, frag>>

\* ------------------------------------------------------------------------
\* Frame driver
\* ------------------------------------------------------------------------
\* timestamps the host hands to the frame callback (ms)
TickTimes == {10 * n : n \in 1..MaxTime}

\* "const minDelta = fpsCap > 0 ? (1000 / fpsCap) : 0" (standalone; the OGL
\* variants have no cap)
MinDelta ==
  IF variant = "standalone" /\ env.cfg.fpsCap > 0 THEN Rat(1000, env.cfg.fpsCap) ELSE RInt(0)

\* the cap test dropped: every tick may draw
CapIgnored(tMs) == TRUE

\* "!minDelta || (tMs - lastT >= minDelta)"
CapOk(tMs) == MinDelta = RInt(0) \/ RLe(MinDelta, RInt(tMs - lastT))

\* "tMs * 0.001"
Seconds(tMs) == Rat(tMs, 1000)

\* a callback that asks for the next frame only while running
RescheduleIfRunning(pending) == IF running THEN (pending - 1) + 1 ELSE pending - 1

\* the callback that ran is no longer pending; its last statement,
\* "requestAnimationFrame(animate)", registers it once more
Reschedule(pending) == (pending - 1) + 1

\* the frame callback without the "if (running)" guard
TickIgnoresPause(tMs) ==
  /\ pc = "loop"
  /\ rafPending > 0
  /\ tMs > now
  /\ IF CapOk(tMs)
     THEN /\ lastT' = IF variant = "standalone" THEN tMs ELSE lastT
          /\ uTime' = Seconds(tMs)
          /\ draws' = Append(draws, Seconds(tMs))
     ELSE UNCHANGED <<lastT, uTime, draws>>
  /\ rafPending' = Reschedule(rafPending)
  /\ now' = tMs
  /\ UNCHANGED <<variant, env, pc, dataVars, projVars, resizeListeners, running, sig, frag>>

\* animate(tMs) / frame(tMs): one run of the frame callback
Tick(tMs) ==
  /\ pc = "loop"
  /\ rafPending > 0
  /\ tMs > now
  /\ IF running /\ CapOk(tMs)
     THEN /\ lastT' = IF variant = "standalone" THEN tMs ELSE lastT
          /\ uTime' = Seconds(tMs)
          /\ draws' = Append(draws, Seconds(tMs))
     ELSE UNCHANGED <<lastT, uTime, draws>>
  /\ rafPending' = Reschedule(rafPending)
  /\ now' = tMs
  /\ UNCHANGED <<variant, env, pc, dataVars, projVars, resizeListeners, running, sig, frag>>

\* batches of IntersectionObserver entries (isIntersecting of each)
EntryBatches == {<<b>> : b \in BOOLEAN} \cup {<<a, b>> : a \in BOOLEAN, b \in BOOLEAN}

\* the observer callback: "for (const e of entries) running = e.isIntersecting"
Intersect(entries) ==
  /\ pc = "loop"
  /\ env.hasIO
  /\ running' = entries[Len(entries)]
  /\ sig' = IF entries[Len(entries)] THEN "visible" ELSE "hidden"
  /\ UNCHANGED <<variant, env, pc, dataVars, projVars, resizeListeners,
                 lastT, uTime, rafPending, draws, now, frag>>

\* updateTransforms without the write of uBounds.value[2]
UpdateTransformsKeepsSize(dot) ==
  LET tr == Transforms(vb)
  IN /\ uBounds' = uBounds
     /\ uScale' = <<tr.sx, tr.sy>>
     /\ uOffset' = <<tr.ox, tr.oy>>

\* updateTransforms() with dotSizeData = dot: uScale, uOffset and
\* "program.uniforms.uBounds.value[2] = dotSizeData"
UpdateTransforms(dot) ==
  LET tr == Transforms(vb)
  IN /\ uBounds' = <<uBounds[1], uBounds[2], dot>>
     /\ uScale' = <<tr.sx, tr.sy>>
     /\ uOffset' = <<tr.ox, tr.oy>>

\* a resize that also restarts every seed at phase 0
ResizeRebuilds(r, dprRaw) ==
  /\ resizeListeners > 0
  /\ rect' = r
  /\ canvasSize' = CanvasSize(variant, r, dprRaw)
  /\ dotSizeData' = DotSize(variant, r.width, vb)
  /\ IF pc = "loop"
     THEN UpdateTransforms(DotSize(variant, r.width, vb))
     ELSE UNCHANGED <<uBounds, uScale, uOffset>>
  /\ seedPhase' = [s \in 1..Len(seedPhase) |-> 0]
  /\ UNCHANGED <<variant, env, pc, pts, vb, seedIdxs, instCenters, instDelay, scan,
                 resizeListeners, drvVars, frag>>

\* a 'resize' event with the canvas measured as r: every registered listener
\* runs.  One listener left (OGL variants, Program threw): resize() alone.
\* Otherwise resize() and updateTransforms().
Resize(r, dprRaw) ==
  /\ resizeListeners > 0
  /\ rect' = r
  /\ canvasSize' = CanvasSize(variant, r, dprRaw)
  /\ dotSizeData' = DotSize(variant, r.width, vb)
  /\ IF pc = "loop"
     THEN UpdateTransforms(DotSize(variant, r.width, vb))
     ELSE UNCHANGED <<uBounds, uScale, uOffset>>
  /\ UNCHANGED <<variant, env, pc, dataVars, resizeListeners, drvVars, frag>>

Next ==
  \/ Start
  \/ DataLoaded
  \/ \E tMs \in TickTimes : Tick(tMs)
  \/ \E entries \in EntryBatches : Intersect(entries)
  \/ \E r \in Rects, d \in DprValues : Resize(r, d)

Spec == Init /\ [][Next]_vars

\* the host runs a pending frame callback at its next frame (every run of the
\* callback advances now)
FairSpec == Spec /\ WF_now(\E tMs \in TickTimes : Tick(tMs))

NextData ==
  \/ Start
  \/ DataLoaded

SpecData == InitData /\ [][NextData]_vars

\* scenario A: the data pipeline on the unit square
InitScenarioA ==
  /\ variant \in Variants
  /\ env = MkEnv("none", UnitSquare, ScenarioACfg, FALSE, TRUE)
  /\ pc = "start"
  /\ Blank

SpecScenarioA == InitScenarioA /\ [][NextData]_vars

\* ------------------------------------------------------------------------
\* Fragment probe: main() of the fragment shader on one instance
\* ------------------------------------------------------------------------
\* global times and delays on a grid of tenths of a second
Tenths(n) == Rat(n, 10)

ProbeCycles == {1, 10}

\* local coordinates of the unit quad, -0.5..0.5 on a grid of 1/(2*UVRes)
LocalCoords == {Rat(n, 2 * UVRes) : n \in (0 - UVRes)..UVRes}

\* option cornerPct, in hundredths
CornerPcts == {Rat(n, 100) : n \in {-20, 0, 12, 50, 98, 100}}

\* "uCorner: { value: cornerPct * 0.5 }"
UCorner(cornerPct) == RMul(cornerPct, Rat(1, 2))

\* main(): "float mask = roundedRectMask(vLocal, clamp(uCorner, 0.0, 0.49));
\* if (mask <= 0.0) discard; float t = uTime + vDelay; ...
\* float w = rippleWindow(tNorm)"
FragmentMain(time, delay, cycle, vLocal, uCorner) ==
  /\ pc = "gpu"
  /\ pc' = "shaded"
  /\ LET corner == ClampCorner(uCorner)
         mask == RoundedRectMask(vLocal, corner)
         tNorm == TNorm(time, delay, cycle)
     IN frag' = [time |-> time, delay |-> delay, cycle |-> cycle,
                 uv |-> vLocal, corner |-> corner, mask |-> mask,
                 discarded |-> (mask <= 0),
                 tNorm |-> IF mask <= 0 THEN RInt(0) ELSE tNorm,
                 w |-> IF mask <= 0 THEN RInt(0) ELSE RippleWindow(tNorm)]
  /\ UNCHANGED <<variant, env, dataVars, projVars, resizeListeners, drvVars>>

InitShader ==
  /\ variant \in Variants
  /\ env = MkEnv("none", ScenarioB, DefaultCfg, FALSE, TRUE)
  /\ pc = "gpu"
  /\ Blank

\* the centre fragment over the time grid
ProbeTime ==
  \E c \in ProbeCycles, n \in 0..MaxProbe, d \in 1..(10 * SetMax(ProbeCycles)) :
    /\ d <= 10 * c
    /\ FragmentMain(Tenths(n), Tenths(-d), RInt(c),
                    <<RInt(0), RInt(0)>>, UCorner(Rat(12, 100)))

\* every fragment of the quad at one instant
ProbeQuad ==
  \E x \in LocalCoords, y \in LocalCoords, cp \in CornerPcts :
    FragmentMain(RInt(0), Tenths(-1), RInt(10), <<x, y>>, UCorner(cp))

NextShader == ProbeTime \/ ProbeQuad

SpecShader == InitShader /\ [][NextShader]_vars

\* ------------------------------------------------------------------------
\* Properties
\* ------------------------------------------------------------------------
cfgOf == env.cfg

\* C1: for every non-empty point sequence, valid configuration and outcome of
\* the random draws, every per-point delay satisfies -cycle <= delay < 0.
C1_DelayInRange ==
  pc = "loop" =>
    \A i \in 1..Len(instDelay) :
      -CycleUnits(cfgOf) <= instDelay[i] /\ instDelay[i] < 0

\* the padding the claim names: the larger of 1 and the largest radius
C2Pad == SetMax({1} \cup {ROr0(pts[i]) : i \in 1..Len(pts)})

\* C2: the viewbox is the bounding box of the points expanded on every side
\* by pad = max(maxR, 1); its width and height are positive; every point's
\* square of half-side r lies inside it; the point {x:5, y:5, r:2} alone
\* gives {x:3, y:3, width:4, height:4}.
C2_ViewboxContainsPoints ==
  pc = "loop" =>
    /\ vb.width > 0 /\ vb.height > 0
    /\ \A i \in 1..Len(pts) :
         LET p == pts[i]
             r == ROr0(p)
         IN /\ vb.x <= p.x - r /\ p.x + r <= vb.x + vb.width
            /\ vb.y <= p.y - r /\ p.y + r <= vb.y + vb.height
            /\ vb.x <= p.x - C2Pad /\ p.x + C2Pad <= vb.x + vb.width
            /\ vb.y <= p.y - C2Pad /\ p.y + C2Pad <= vb.y + vb.height
    /\ \E i \in 1..Len(pts) : pts[i].x - C2Pad = vb.x
    /\ \E i \in 1..Len(pts) : pts[i].y - C2Pad = vb.y
    /\ \E i \in 1..Len(pts) : pts[i].x + C2Pad = vb.x + vb.width
    /\ \E i \in 1..Len(pts) : pts[i].y + C2Pad = vb.y + vb.height
    /\ (pts = ScenarioB => vb = [x |-> 3, y |-> 3, width |-> 4, height |-> 4])

C2_Witness ==
  /\ pc = "loop"
  /\ pts = ScenarioB
  /\ vb = [x |-> 3, y |-> 3, width |-> 4, height |-> 4]

\* round(N * seedFraction): the integer k with k - 1/2 <= N * seedFraction < k + 1/2
C3Round ==
  LET num == cfgOf.seedFraction[1]
      den == cfgOf.seedFraction[2]
      n   == Len(pts)
  IN CHOOSE k \in 0..n : (2 * k - 1) * den <= 2 * n * num /\ 2 * n * num < (2 * k + 1) * den

\* C3: the seed selector returns exactly clamp(round(N * seedFraction), 1,
\* maxSeeds) indices, all distinct and all in 0..N-1, whatever the shuffle
\* drew; for N = 1 the seed list is exactly <<0>>.
C3_SeedSelection ==
  pc = "loop" =>
    /\ Len(seedIdxs) = Min2(Max2(C3Round, 1), cfgOf.maxSeeds)
    /\ \A s \in 1..Len(seedIdxs) : seedIdxs[s] \in 0..(Len(pts) - 1)
    /\ \A s, t \in 1..Len(seedIdxs) : s # t => seedIdxs[s] # seedIdxs[t]
    /\ (Len(pts) = 1 => seedIdxs = <<0>>)
    /\ Len(seedPhase) = Len(seedIdxs)

C3_Witness ==
  /\ pc = "loop"
  /\ Len(pts) = 3
  /\ seedIdxs = <<0, 2>>

\* a fatal initialization condition holds in this environment
Fatal ==
  \/ ~env.canvas
  \/ ~env.gl
  \/ ~env.dataUrl
  \/ env.fetch # "ok"
  \/ ~env.payload.isArray
  \/ Len(env.payload.items) = 0
  \/ \E i \in 1..Len(env.payload.items) : ~HasXY(env.payload.items[i])
  \/ env.program # "ok"

\* C4: under every fatal initialization condition, in each variant, the frame
\* callback is never registered and no draw is ever issued.
C4_FatalNeverStartsLoop ==
  Fatal => rafPending = 0 /\ draws = <<>> /\ pc # "loop"

\* C5: with the reduced-motion preference asserted the driver starts Paused,
\* exactly one frame is drawn and it is drawn with time 0, and the frame
\* callback is not rescheduled, whatever ticks and signals follow.
C5_ReducedMotionFrozen ==
  (pc = "loop" /\ env.reducedMotion) =>
    /\ draws = <<RInt(0)>>
    /\ rafPending = 0
    /\ (sig = "none" => ~running)

\* a step that runs the frame callback, and one that issues a draw
TickStep == now' # now

DrawStep == draws' # draws

\* what a tick may do to the draws, as C6 states it
C6TickEffect ==
  TickStep =>
    /\ (MinDelta = RInt(0) => (DrawStep <=> running))
    /\ (DrawStep => draws' = Append(draws, Rat(now', 1000)) /\ uTime' = Rat(now', 1000))
    /\ Len(draws') <= Len(draws) + 1
    /\ (~running => draws' = draws /\ uTime' = uTime)

\* C6: without reduced motion the driver starts Running; once a signal has
\* arrived the driver is Running iff the latest signal was 'visible'; a tick
\* at tMs with no fps cap draws iff the driver is Running; a draw uses
\* time tMs/1000; a tick issues at most one draw, and none while Paused.
C6_RunningGatesDraws ==
  /\ [](pc = "loop" =>
          /\ (~env.reducedMotion /\ sig = "none" => running)
          /\ (sig # "none" => (running <=> sig = "visible")))
  /\ [][C6TickEffect]_vars

C6_Witness ==
  /\ pc = "loop"
  /\ ~env.reducedMotion
  /\ sig = "visible"
  /\ running
  /\ now = 30
  /\ draws = <<Rat(10, 1000), Rat(30, 1000)>>

\* the cap in force (standalone only), in Hz; 0 when there is none
CapHz == IF variant = "standalone" THEN cfgOf.fpsCap ELSE 0

\* what a tick does under the cap, as C7 states it
C7TickEffect ==
  TickStep =>
    /\ (CapHz > 0 /\ (now' - lastT) * CapHz < 1000 => ~DrawStep /\ lastT' = lastT)
    /\ (CapHz > 0 /\ running /\ (now' - lastT) * CapHz >= 1000 => DrawStep /\ lastT' = now')
    /\ rafPending' = 1 /\ rafPending = 1
    /\ (CapHz = 0 /\ running => DrawStep)

\* C7: with fpsCap = capHz > 0 (standalone) two consecutive drawn frames are
\* at least 1/capHz s apart; a tick arriving sooner draws nothing and leaves
\* the last-drawn timestamp unchanged; every tick, drawn or skipped,
\* reschedules the callback; with fpsCap = 0 no tick is skipped while Running.
C7_FpsCap ==
  /\ [](pc = "loop" /\ CapHz > 0 =>
          /\ \A i \in 1..(Len(draws) - 1) :
               RLe(Rat(1, CapHz), RSub(draws[i + 1], draws[i]))
          /\ (draws # <<>> => draws[Len(draws)] = Rat(lastT, 1000)))
  /\ [][C7TickEffect]_vars

C7_Witness ==
  /\ pc = "loop"
  /\ CapHz = 50
  /\ draws = <<Rat(20, 1000), Rat(40, 1000)>>
  /\ lastT = 40

\* what an event after initRipple may change, as C8 states it
C8EventEffect ==
  pc \in {"loop", "returned", "threw"} =>
    /\ dataVars' = dataVars
    /\ (projVars' # projVars =>
          drvVars' = drvVars /\ resizeListeners' = resizeListeners /\ pc' = pc)
    /\ (TickStep =>
          /\ projVars' = projVars
          /\ running' = running /\ sig' = sig
          /\ resizeListeners' = resizeListeners /\ pc' = pc)

\* C8: once initRipple is over, no tick, resize or visibility event changes
\* the viewbox, the point centers, the seed set, the seed phases or the delay
\* field; a resize changes Projection state only; a tick changes only the
\* global time and the last-drawn timestamp (and the record of the draws).
C8_ResizeOnlyProjection ==
  [][C8EventEffect]_vars

C8_Witness ==
  /\ pc = "loop"
  /\ rect = [width |-> 400, height |-> 200]
  /\ dotSizeData # DotSize(variant, Rect0.width, vb)
  /\ draws # <<>>
  /\ now > 0
  /\ sig # "none"

\* the uniforms updateTransforms last wrote
uniformsOf == [sx |-> uScale[1], sy |-> uScale[2], ox |-> uOffset[1], oy |-> uOffset[2]]

\* C9: the projection maps the four viewbox corners exactly onto the corners
\* of the normalized square with Y flipped: (vbX, vbY) -> (-1, 1),
\* (vbX+vbW, vbY) -> (1, 1), (vbX, vbY+vbH) -> (-1, -1), (vbX+vbW, vbY+vbH) -> (1, -1).
C9_CornersToNDC ==
  (pc = "loop" /\ IsFinite(vb)) =>
    /\ vb.width > 0 /\ vb.height > 0
    /\ ToNDC(vb.x, vb.y, uniformsOf) = <<RInt(-1), RInt(1)>>
    /\ ToNDC(vb.x + vb.width, vb.y, uniformsOf) = <<RInt(1), RInt(1)>>
    /\ ToNDC(vb.x, vb.y + vb.height, uniformsOf) = <<RInt(-1), RInt(-1)>>
    /\ ToNDC(vb.x + vb.width, vb.y + vb.height, uniformsOf) = <<RInt(1), RInt(-1)>>

C9_Witness ==
  /\ pc = "loop"
  /\ vb = [x |-> -1, y |-> -1, width |-> 4, height |-> 2]
  /\ uScale = <<Rat(1, 2), RInt(-1)>>
  /\ uOffset = <<Rat(-1, 2), RInt(0)>>

\* C10: on tNorm in [0, 1): w(0) = 0; w = 1 on [0.03, 0.10]; on [0.10, 1)
\* w = 1 - (tNorm - 0.10)/0.90, which never increases and stays above 0 by
\* no more than (1 - tNorm)/0.9; tNorm = 0.05 gives 1 and tNorm = 0.9 gives 1/9.
C10_IntensityCurve ==
  pc = "shaded" /\ ~frag.discarded =>
    LET u == frag.tNorm
        w == frag.w
    IN /\ RLe(RInt(0), u) /\ RLt(u, RInt(1))
       /\ (u = RInt(0) => w = RInt(0))
       /\ (RLe(Rat(3, 100), u) /\ RLe(u, Rat(10, 100)) => w = RInt(1))
       /\ (RLe(Rat(10, 100), u) =>
             /\ w = RSub(RInt(1), RDiv(RSub(u, Rat(10, 100)), Rat(90, 100)))
             /\ RLt(RInt(0), w) /\ RLe(w, RInt(1))
             /\ RMul(w, Rat(9, 10)) = RSub(RInt(1), u)
             /\ \A n \in 10..99 :
                  RLe(u, Rat(n, 100)) => RLe(RippleWindow(Rat(n, 100)), w))
       /\ (u = Rat(5, 100) => w = RInt(1))
       /\ (u = Rat(9, 10) => w = Rat(1, 9))

C10_Witness ==
  /\ pc = "shaded"
  /\ frag.cycle = RInt(10)
  /\ frag.tNorm = Rat(9, 10)
  /\ frag.w = Rat(1, 9)

\* C11: roundedRectMask gives the same accept/reject result for (x,y), (-x,y)
\* and (x,-y), for the clamped corner main() passes and for any other corner
\* value; with corner = 0 a fragment is accepted iff max(|x|,|y|) <= 0.5.
C11_MaskSymmetry ==
  pc = "shaded" =>
    LET x == frag.uv[1]
        y == frag.uv[2]
        mx == RSub(RInt(0), x)
        my == RSub(RInt(0), y)
    IN /\ frag.mask = RoundedRectMask(<<mx, y>>, frag.corner)
       /\ frag.mask = RoundedRectMask(<<x, my>>, frag.corner)
       /\ \A cp \in CornerPcts :
            LET m == RoundedRectMask(<<x, y>>, UCorner(cp))
            IN /\ m = RoundedRectMask(<<mx, y>>, UCorner(cp))
               /\ m = RoundedRectMask(<<x, my>>, UCorner(cp))
       /\ (frag.corner = RInt(0) =>
             (frag.mask = 1 <=> RLe(RMax(RAbs(x), RAbs(y)), Rat(1, 2))))

C11_Witness ==
  /\ pc = "shaded"
  /\ frag.corner = Rat(1, 4)
  /\ frag.uv = <<Rat(-1, 2), RInt(0)>>
  /\ frag.discarded

\* C16: for the clamped corner c in [0, 0.49] a fragment is accepted iff
\* max(|x|,|y|) <= 0.5 - c; whenever the first test (outside <= 0) passes,
\* q is the zero vector and the second test passes too, so the drawn shape
\* is a square of half-size 0.5 - c with no corner pixels removed.
C16_MaskIsInsetSquare ==
  pc = "shaded" =>
    LET c == frag.corner
        a == MaskA(frag.uv, c)
        q == MaskQ(a)
    IN /\ RLe(RInt(0), c) /\ RLe(c, Rat(49, 100))
       /\ (frag.mask = 1 <=>
             RLe(RMax(RAbs(frag.uv[1]), RAbs(frag.uv[2])), RSub(Rat(1, 2), c)))
       /\ (Step(MaskOutside(a), RInt(0)) = 1 =>
             /\ q = <<RInt(0), RInt(0)>>
             /\ StepR(q, c) = 1)
       /\ frag.discarded = (frag.mask = 0)

C16_Witness ==
  /\ pc = "shaded"
  /\ frag.corner = Rat(1, 4)
  /\ frag.uv = <<Rat(1, 4), Rat(-1, 4)>>
  /\ frag.mask = 1
  /\ ~frag.discarded

\* scenario A has been built: the unit square with seedFraction 1.0, maxSeeds >= 4
ScenarioABuilt ==
  /\ pc = "loop"
  /\ pts = UnitSquare
  /\ cfgOf.seedFraction = <<1, 1>>
  /\ cfgOf.maxSeeds >= 4

\* all four points are seeds, each point's nearest seed is itself at distance 0
\* and its travel time is 0
C12OwnSeed(i) ==
  /\ seedIdxs = <<0, 1, 2, 3>>
  /\ scan[i].bestIdx = i - 1
  /\ scan[i].bestDist2 = 0
  /\ scan[i].travelSec = 0

\* -(phase % cycle) with JavaScript's remainder, 0 nudged to -0.0001
C12Fold(phase) ==
  LET c == CycleUnits(cfgOf)
      rem == IF phase >= 0 THEN phase % c ELSE 0 - ((0 - phase) % c)
  IN IF rem = 0 THEN 0 - NudgeUnits ELSE 0 - rem

C13Dist(i, s) == Dist2(pts[i], pts[seedIdxs[s] + 1])

\* C13: the seed the delay loop uses for a point is at minimum Euclidean
\* distance among all seeds; among the seeds at that distance it is the one
\* lowest in the seed list, and, the list being sorted ascending, the one
\* with the lowest point index, whatever order the shuffle produced.
C13_NearestSeedTieBreak ==
  pc = "loop" =>
    \A i \in 1..Len(pts) :
      LET b == scan[i].bestIdx + 1
      IN /\ b \in 1..Len(seedIdxs)
         /\ scan[i].bestDist2 = C13Dist(i, b)
         /\ \A s \in 1..Len(seedIdxs) : C13Dist(i, b) <= C13Dist(i, s)
         /\ \A s \in 1..Len(seedIdxs) :
              C13Dist(i, s) = C13Dist(i, b) => b <= s /\ seedIdxs[b] <= seedIdxs[s]
         /\ \A s, t \in 1..Len(seedIdxs) : s < t => seedIdxs[s] < seedIdxs[t]

C13_Witness ==
  /\ pc = "loop"
  /\ pts = Collinear
  /\ seedIdxs = <<0, 2>>
  /\ scan[2].bestIdx = 0
  /\ scan[2].bestDist2 = 1
  /\ C13Dist(2, 1) = C13Dist(2, 2)

\* the loop has started and reduced motion is not requested
C14Started == pc = "loop" /\ ~env.reducedMotion

\* a later timestamp exists at which the fps cap lets a running tick draw
C14CanDraw == \E t \in TickTimes : t > now /\ CapOk(t)

C14Pending == C14Started => rafPending = 1

C14TickEffect ==
  TickStep /\ ~env.reducedMotion =>
    /\ rafPending = 1
    /\ rafPending' = 1
    /\ (sig = "visible" /\ CapOk(now') => DrawStep)

C14TickSafe == [][C14TickEffect]_vars

C14Resumes ==
  \A n \in 0..MaxTime :
    (C14Started /\ running /\ C14CanDraw /\ Len(draws) = n)
      ~> (Len(draws) > n \/ ~running \/ ~C14CanDraw)

\* C14: once the loop has started without reduced motion exactly one frame
\* callback is pending in every state; every tick, Running, Paused or skipped
\* by the fps cap, leaves exactly one pending; a tick that follows a
\* "visible" signal and satisfies the cap draws; and while the driver is
\* running and a cap-satisfying timestamp is still to come, a draw follows
\* (unless the canvas is hidden again first).
C14_LoopNeverStops == []C14Pending /\ C14TickSafe /\ C14Resumes

C14_Witness ==
  /\ C14Started
  /\ variant = "resilient"
  /\ sig = "hidden"
  /\ ~running
  /\ now = 20
  /\ uTime = Seconds(10)
  /\ draws = <<Seconds(10)>>
  /\ rafPending = 1

\* targetDotPx / (w / viewbox.width) for the last measured width w
C15Size == RDiv(RInt(TargetDotPx), Rat(rect.width, vb.width))

\* a draw takes the marker size from uBounds.z as the step leaves it
C15DrawEffect ==
  DrawStep /\ IsFinite(vb') /\ rect'.width > 0 =>
    /\ uBounds'[3] = C15Size'
    /\ dotSizeData' = C15Size'

\* a resize leaves the marker size of its own width in uBounds.z
C15ResizeEffect ==
  pc = "loop" /\ rect' # rect /\ IsFinite(vb) /\ rect'.width > 0 =>
    uBounds'[3] = C15Size'

C15Effect == C15DrawEffect /\ C15ResizeEffect

\* C15: every draw uses the marker size targetDotPx / (w / viewbox.width)
\* for the width w > 0 most recently measured (by the last resize event, or
\* at initialization when there was none); no draw uses a size computed from
\* an older width, however resize events and ticks interleave.
C15_DrawUsesLatestWidth == [][C15Effect]_vars

C15_Witness ==
  /\ pc = "loop"
  /\ IsFinite(vb)
  /\ rect.width = 400
  /\ now > 0
  /\ draws # <<>>
  /\ draws[Len(draws)] = Seconds(now)
  /\ uBounds[3] = C15Size
  /\ uBounds[3] # DotSize(variant, Rect0.width, vb)

=============================================================================
